---- MODULE Spec2Model ----
(***************************************************************************)
(* A model of utils:: in string_utils.hpp: trimm, split, substr, parseCSV, *)
(* to_string and from_string.                                              *)
(*                                                                         *)
(* A string_view is a sequence of one-character strings; the character     *)
(* '\0' is written "NUL".  Positions are 0-based as in the source, so the  *)
(* character str[i] of the source is At(str, i) here.                      *)
(*                                                                         *)
(* Three specifications, one per group of functions:                       *)
(*   SpecSplit  a caller of split and of substr on one string;             *)
(*   SpecCSV    a call of parseCSV;                                        *)
(*   SpecNum    a call of to_string or from_string, in the build with      *)
(*              <charconv> (std::to_chars, std::from_chars) and in the one *)
(*              without (std::snprintf, std::sscanf).                      *)
(* The functions are operators that compute what the code computes, loop   *)
(* by loop; the library functions they call are modelled by what the C and *)
(* C++ standards say of them.                                              *)
(***************************************************************************)
EXTENDS Integers, Sequences, FiniteSets, TLC

VARIABLES
    str,        \* split/substr: the string both are called on
    by,         \* split/substr: the delimiter set (by / split_by)
    withEmpty,  \* split/substr: the withEmpty argument
    escape,     \* split/substr: the escape argument
    hasHandler, \* split: whether the handler passed is callable
    offset0,    \* substr: the caller's offset before the first call
    offset,     \* substr: the caller's offset (size_t&)
    parts,      \* substr: the values returned by the calls made while offset < str.size()
    ret,        \* substr: the value the last call returned
    handled,    \* split: the handler's calls, in order, as [part, idx]
    splitDone,  \* split: whether split has been called
    csvIn,      \* parseCSV: the arguments, and how the text was put together
    events,     \* parseCSV: the calls of onCell and onEndl, in order
    csvDone,    \* parseCSV: whether parseCSV has been called
    numOp,      \* to_string/from_string: the call made, "idle" before it
    numIn,      \* to_string/from_string: the arguments of the call
    numOut      \* to_string/from_string: what the call returned and wrote

splitVars == <<str, by, withEmpty, escape, hasHandler, offset0, offset, parts,
               ret, handled, splitDone>>

csvVars == <<csvIn, events, csvDone>>

numVars == <<numOp, numIn, numOut>>

vars == <<splitVars, csvVars, numVars>>

----------------------------------------------------------------------------
(* Bounds of the model                                                      *)

MaxLen == 4

MaxCsvLen == 4

MaxContent == 3

MaxCap == 12

MaxTextLen == 3

MaxQuarters == 44

----------------------------------------------------------------------------
(* std::string_view                                                         *)

NUL == "NUL"

Min(a, b) == IF a < b THEN a ELSE b

SeqsUpTo(S, n) == UNION {[1..k -> S] : k \in 0..n}

\* str[i]
At(s, i) == s[i + 1]

\* s.substr(pos, count), for pos <= s.size()
SubView(s, pos, count) == SubSeq(s, pos + 1, pos + Min(count, Len(s) - pos))

\* s.substr(pos)
SubViewFrom(s, pos) == SubSeq(s, pos + 1, Len(s))

\* set.find(c) != npos
Find(set, c) == \E k \in 1..Len(set) : set[k] = c

----------------------------------------------------------------------------
(* split                                                                    *)

\* a split that passes every part on, as if withEmpty were always set
KeepPartAlways(we, part) == TRUE

\* line 147 and line 184: whether a part that ends at a delimiter is passed on
KeepPart(we, part) == we \/ part # <<>>

\* a scan that takes every escape character, also an escaped one, as an escape
EveryEscapeStarts(isPrevEscape, c, esc) == c = esc

\* lines 133-142: the character is an escape that starts an escaped pair
StartsEscape(isPrevEscape, c, esc) == ~isPrevEscape /\ c = esc

\* lines 143-145: the character ends a part
IsDelimiter(set, c) == Find(set, c)

RECURSIVE splitLoop(_, _, _, _, _, _, _, _, _)
splitLoop(s, set, we, esc, i, begin, isPrevEscape, idx, calls) ==
    IF i >= Len(s)
    THEN LET part == SubViewFrom(s, begin)
         IN  IF part # <<>>
             THEN Append(calls, [part |-> part, idx |-> idx])
             ELSE calls
    ELSE IF StartsEscape(isPrevEscape, At(s, i), esc)
    THEN splitLoop(s, set, we, esc, i + 1, begin, TRUE, idx, calls)
    ELSE IF isPrevEscape
    THEN splitLoop(s, set, we, esc, i + 1, begin, FALSE, idx, calls)
    ELSE IF ~IsDelimiter(set, At(s, i))
    THEN splitLoop(s, set, we, esc, i + 1, begin, isPrevEscape, idx, calls)
    ELSE LET part == SubView(s, begin, i - begin)
         IN  IF KeepPart(we, part)
             THEN splitLoop(s, set, we, esc, i + 1, i + 1, isPrevEscape,
                            idx + 1,
                            Append(calls, [part |-> part, idx |-> idx]))
             ELSE splitLoop(s, set, we, esc, i + 1, i + 1, isPrevEscape, idx, calls)

\* the handler's calls, in order (idx is a uint32_t; it stays far below 2^32 here)
split(s, set, handler, we, esc) ==
    IF set = <<>> \/ ~handler
    THEN <<>>
    ELSE splitLoop(s, set, we, esc, 0, 0, FALSE, 0, <<>>)

----------------------------------------------------------------------------
(* substr                                                                   *)

\* a substr that steps twice past the end
EndOffsetTwice(off) == off + 2

\* line 191: the offset substr leaves when the scan reaches the end of str
EndOffset(off) == off + 1

\* lines 190-195: what substr returns when the scan reaches the end of str
EndPart(s, begin) == SubViewFrom(s, begin)

RECURSIVE substrLoop(_, _, _, _, _, _, _)
substrLoop(s, set, we, esc, off, begin, isPrevEscape) ==
    IF off >= Len(s)
    THEN [part |-> EndPart(s, begin), offset |-> EndOffset(off)]
    ELSE IF StartsEscape(isPrevEscape, At(s, off), esc)
    THEN substrLoop(s, set, we, esc, off + 1, begin, TRUE)
    ELSE IF isPrevEscape
    THEN substrLoop(s, set, we, esc, off + 1, begin, FALSE)
    ELSE IF ~IsDelimiter(set, At(s, off))
    THEN substrLoop(s, set, we, esc, off + 1, begin, isPrevEscape)
    ELSE LET part == SubView(s, begin, off - begin)
         IN  IF KeepPart(we, part)
             THEN [part |-> part, offset |-> off + 1]
             ELSE substrLoop(s, set, we, esc, off + 1, off + 1, isPrevEscape)

\* the value returned and the offset left in the caller's variable
substr(s, off, set, we, esc) ==
    IF set = <<>>
    THEN [part |-> <<>>, offset |-> off]
    ELSE IF off >= Len(s)
    THEN [part |-> <<>>, offset |-> off]
    ELSE substrLoop(s, set, we, esc, off, off, FALSE)

----------------------------------------------------------------------------
(* parseCSV                                                                 *)

Quote == "\""

\* a parse that takes no quote as the second of a doubled pair
NeverDoubled(isPrevQuotes) == FALSE

\* line 227: the quote is the second of a doubled pair
IsDoubledQuote(isPrevQuotes) == isPrevQuotes

\* lines 238-240: the characters that end a record
IsEndl(c) == c \in {NUL, "\n", "\r"}

\* a parse that forgets the record end at every character
ClearsAlways(c) == TRUE

\* line 258: the character lets the next terminator end a record again
ClearsPrevEndl(c) == c # NUL /\ c # "\n" /\ c # "\r"

CellEvent(cell, idx, at) == [kind |-> "cell", cell |-> cell, idx |-> idx, at |-> at]
EndlEvent(at) == [kind |-> "endl", cell |-> <<>>, idx |-> 0, at |-> at]

\* lines 210-223: one character inside a quoted string
csvInString(st, c) ==
    IF c = Quote
    THEN [st EXCEPT !.isString = FALSE, !.isPrevQuotes = TRUE]
    ELSE [st EXCEPT !.cell = Append(@, c)]

\* lines 225-254: the switch on one character outside a quoted string
csvSwitch(st, c, i, onEndl) ==
    IF c = Quote
    THEN IF IsDoubledQuote(st.isPrevQuotes)
         THEN [st EXCEPT !.isPrevQuotes = FALSE, !.cell = Append(@, Quote),
                         !.isString = TRUE]
         ELSE [st EXCEPT !.isString = TRUE]
    ELSE IF c = ","
    THEN [st EXCEPT !.out = Append(@, CellEvent(st.cell, st.idx, i)),
                    !.cell = <<>>,
                    !.idx = st.idx + 1]
    ELSE IF IsEndl(c)
    THEN LET s1 == IF st.cell # <<>>
                   THEN [st EXCEPT !.out = Append(@, CellEvent(st.cell, st.idx, i)),
                                   !.cell = <<>>]
                   ELSE st
             s2 == IF ~s1.isPrevEndl /\ onEndl
                   THEN [s1 EXCEPT !.isPrevEndl = TRUE,
                                   !.out = Append(@, EndlEvent(i))]
                   ELSE s1
         IN  [s2 EXCEPT !.idx = 0]
    ELSE [st EXCEPT !.cell = Append(@, c)]

\* lines 224-261: one character outside a quoted string
csvOutOfString(st, c, i, onEndl) ==
    LET s1 == csvSwitch(st, c, i, onEndl)
        s2 == IF c # Quote THEN [s1 EXCEPT !.isPrevQuotes = FALSE] ELSE s1
    IN  IF ClearsPrevEndl(c) THEN [s2 EXCEPT !.isPrevEndl = FALSE] ELSE s2

\* lines 209-262: the characters from position i on
RECURSIVE csvLoop(_, _, _, _)
csvLoop(csv, i, st, onEndl) ==
    IF i >= Len(csv) THEN st
    ELSE csvLoop(csv, i + 1,
                 IF st.isString
                 THEN csvInString(st, At(csv, i))
                 ELSE csvOutOfString(st, At(csv, i), i, onEndl),
                 onEndl)

\* the calls of onCell and onEndl, in order; at is the position of the
\* character that caused the call, csv.size() for a call after the scan
parseCSV(csv, onCell, onEndl) ==
    IF ~onCell THEN <<>>
    ELSE LET st == csvLoop(csv, 0,
                           [cell |-> <<>>, isString |-> FALSE, isPrevQuotes |-> FALSE,
                            isPrevEndl |-> FALSE, idx |-> 0, out |-> <<>>],
                           onEndl)
             s1 == IF st.cell # <<>>
                   THEN [st EXCEPT !.out = Append(@, CellEvent(st.cell, st.idx, Len(csv))),
                                   !.cell = <<>>]
                   ELSE st
         IN  IF ~s1.isPrevEndl /\ onEndl
             THEN Append(s1.out, EndlEvent(Len(csv)))
             ELSE s1.out

----------------------------------------------------------------------------
(* trimm                                                                    *)

\* lines 108-113: drop the characters of by from the front
RECURSIVE trimFront(_, _)
trimFront(string, set) ==
    IF string = <<>> THEN string
    ELSE IF ~Find(set, Head(string)) THEN string
    ELSE trimFront(SubViewFrom(string, 1), set)

\* lines 114-119: drop the characters of by from the back
RECURSIVE trimBack(_, _)
trimBack(string, set) ==
    IF string = <<>> THEN string
    ELSE IF ~Find(set, string[Len(string)]) THEN string
    ELSE trimBack(SubView(string, 0, Len(string) - 1), set)

trimm(string, set) == trimBack(trimFront(string, set), set)

\* checked_string_view(const char*): the characters before the first NUL
RECURSIVE CStr(_)
CStr(bytes) ==
    IF bytes = <<>> \/ Head(bytes) = NUL THEN <<>>
    ELSE <<Head(bytes)>> \o CStr(Tail(bytes))

----------------------------------------------------------------------------
(* The integer types and their text                                         *)

I8 == [bits |-> 8, signed |-> TRUE]
U8 == [bits |-> 8, signed |-> FALSE]
I16 == [bits |-> 16, signed |-> TRUE]
U16 == [bits |-> 16, signed |-> FALSE]
I32 == [bits |-> 32, signed |-> TRUE]

IntTypes == {I8, U8, I16, U16, I32}

\* std::numeric_limits<integer_t>::max() and min()
TMax(t) ==
    CASE t = I8 -> 127
      [] t = U8 -> 255
      [] t = I16 -> 32767
      [] t = U16 -> 65535
      [] t = I32 -> 2147483647

TMin(t) == IF t.signed THEN -TMax(t) - 1 ELSE 0

DigitChars == <<"0", "1", "2", "3", "4", "5", "6", "7", "8", "9",
                "a", "b", "c", "d", "e", "f">>

UpperHex == <<"A", "B", "C", "D", "E", "F">>

\* the value of the character as a digit, 99 when it is none
DigitValue(c) ==
    IF \E d \in 1..16 : DigitChars[d] = c
    THEN (CHOOSE d \in 1..16 : DigitChars[d] = c) - 1
    ELSE IF \E d \in 1..6 : UpperHex[d] = c
    THEN (CHOOSE d \in 1..6 : UpperHex[d] = c) + 9
    ELSE 99

IsDigit(c, base) == DigitValue(c) < base

\* the digits of n >= 0 in the base, lowercase, no leading zero
RECURSIVE Digits(_, _)
Digits(n, base) ==
    IF n < base THEN <<DigitChars[n + 1]>>
    ELSE Append(Digits(n \div base, base), DigitChars[(n % base) + 1])

\* the text of n in the base: a minus sign and the digits of -n when n < 0
Repr(n, base) == IF n < 0 THEN <<"-">> \o Digits(-n, base) ELSE Digits(n, base)

Base(hex) == IF hex THEN 16 ELSE 10

\* the number of leading characters of s that are digits of the base
RECURSIVE DigitRun(_, _)
DigitRun(s, base) ==
    IF s = <<>> \/ ~IsDigit(Head(s), base) THEN 0
    ELSE 1 + DigitRun(Tail(s), base)

\* the value of a sequence of digits, -1 when it is more than 2147483647
RECURSIVE Magnitude(_, _, _)
Magnitude(digs, base, acc) ==
    IF digs = <<>> THEN acc
    ELSE IF acc > (2147483647 - DigitValue(Head(digs))) \div base THEN -1
    ELSE Magnitude(Tail(digs), base, acc * base + DigitValue(Head(digs)))

\* -mag or mag is a value of the type
Fits(t, neg, mag) ==
    /\ mag >= 0
    /\ IF neg THEN t.signed /\ mag - 1 <= TMax(t) ELSE mag <= TMax(t)

----------------------------------------------------------------------------
(* The buffer of to_string: buffer.size() bytes and the byte after them     *)

Unset == "?"
Guard == "G"

Memory(cap) == [k \in 1..(cap + 1) |-> IF k <= cap THEN Unset ELSE Guard]

\* the memory with the bytes written from its start
Written(mem, bytes) ==
    [k \in 1..Len(mem) |-> IF k <= Len(bytes) THEN bytes[k] ELSE mem[k]]

\* the buffer as a string_view: the first cap bytes
BufferView(mem, cap) == SubSeq(mem, 1, cap)

----------------------------------------------------------------------------
(* to_string, integers                                                      *)

\* std::to_chars(first, last, value, base): the possible [ok, ptr, mem].  When
\* the text does not fit, ec is value_too_large and the content of
\* [first, last) is unspecified: left as it was, or the start of the text
to_chars(mem, cap, number, base) ==
    LET text == Repr(number, base)
    IN  IF Len(text) <= cap
        THEN {[ok |-> TRUE, ptr |-> Len(text), mem |-> Written(mem, text)]}
        ELSE {[ok |-> FALSE, ptr |-> cap, mem |-> m] :
                 m \in {mem, Written(mem, SubSeq(text, 1, cap))}}

\* lines 286-289: the view returned for a result of to_chars
to_string_result(r, mem, cap) ==
    IF ~r.ok
    THEN [view |-> <<>>, mem |-> r.mem]
    ELSE [view |-> SubView(BufferView(r.mem, cap), 0, r.ptr), mem |-> r.mem]

\* lines 274-290, with <charconv>: the possible [view, mem]
to_string_charconv(number, mem, cap, hex) ==
    {to_string_result(r, mem, cap) : r \in to_chars(mem, cap, number, Base(hex))}

\* std::snprintf(buffer, size, format, ...) for the text the format gives:
\* at most size - 1 characters and a NUL are written, the length of the whole
\* text is returned
snprintf(mem, cap, text) ==
    [length |-> Len(text),
     mem |-> IF cap = 0 THEN mem
             ELSE Written(mem, SubSeq(text, 1, Min(Len(text), cap - 1)) \o <<NUL>>)]

\* lines 294-361, without <charconv>: the possible [view, mem]
to_string_fallback(number, mem, cap, hex) ==
    LET r == snprintf(mem, cap, Repr(number, Base(hex)))
    IN  IF r.length <= 0
        THEN {[view |-> <<>>, mem |-> r.mem]}
        ELSE {[view |-> SubView(BufferView(r.mem, cap), 0, r.length), mem |-> r.mem]}

to_string(backend, number, mem, cap, hex) ==
    IF backend = "charconv"
    THEN to_string_charconv(number, mem, cap, hex)
    ELSE to_string_fallback(number, mem, cap, hex)

----------------------------------------------------------------------------
(* from_string, integers                                                    *)

\* std::from_chars(first, last, value, base): [ok, ptr, number].  A minus
\* sign is taken only for a signed type, no plus sign, no 0x, no white space;
\* ptr is after the digits, also when the value does not fit
from_chars(string, t, number, base) ==
    LET neg == t.signed /\ string # <<>> /\ Head(string) = "-"
        start == IF neg THEN 1 ELSE 0
        n == DigitRun(SubViewFrom(string, start), base)
        mag == Magnitude(SubView(string, start, n), base, 0)
    IN  IF n = 0
        THEN [ok |-> FALSE, ptr |-> 0, number |-> number]
        ELSE IF ~Fits(t, neg, mag)
        THEN [ok |-> FALSE, ptr |-> start + n, number |-> number]
        ELSE [ok |-> TRUE, ptr |-> start + n,
              number |-> IF neg THEN -mag ELSE mag]

\* lines 425-429: the text was taken whole and without error
from_string_result(string, r) ==
    [ok |-> ~(r.ptr # Len(string) \/ ~r.ok), number |-> r.number]

\* lines 415-430, with <charconv>
from_string_charconv(string, t, number, hex) ==
    from_string_result(string, from_chars(string, t, number, Base(hex)))

WhiteSpace == {" ", "\t", "\n", "\r"}

RECURSIVE SkipSpace(_)
SkipSpace(s) ==
    IF s # <<>> /\ Head(s) \in WhiteSpace THEN SkipSpace(Tail(s)) ELSE s

\* std::sscanf(data, "%<width><conv>", &number) for one integer conversion:
\* [n, number], n the value returned (-1 is EOF).  conv is "i" (the base is
\* 16 after 0x, 8 after 0, else 10), "u" (10) or "x" (16, 0x allowed).  The
\* bytes are read up to the first NUL; white space is skipped and not counted
\* in the width.  Values that fit the type only.
sscanf(bytes, width, conv, t, number) ==
    LET input == SkipSpace(CStr(bytes))
        item == SubView(input, 0, width)
        signed == item # <<>> /\ Head(item) \in {"-", "+"}
        neg == item # <<>> /\ Head(item) = "-"
        afterSign == IF signed THEN Tail(item) ELSE item
        has0x == /\ conv \in {"i", "x"}
                 /\ Len(afterSign) >= 3
                 /\ afterSign[1] = "0" /\ afterSign[2] \in {"x", "X"}
                 /\ IsDigit(afterSign[3], 16)
        base == IF conv = "x" \/ has0x THEN 16
                ELSE IF conv = "i" /\ afterSign # <<>> /\ afterSign[1] = "0" THEN 8
                ELSE 10
        body == IF has0x THEN SubViewFrom(afterSign, 2) ELSE afterSign
        n == DigitRun(body, base)
        mag == Magnitude(SubView(body, 0, n), base, 0)
    IN  IF input = <<>>
        THEN [n |-> -1, number |-> number]
        ELSE IF n = 0
        THEN [n |-> 0, number |-> number]
        ELSE [n |-> 1,
              number |-> IF ~neg THEN mag
                         ELSE IF t.signed THEN -mag
                         ELSE (TMax(t) + 1 - mag) % (TMax(t) + 1)]

\* the conversion of the overload: SCNi for a signed type, SCNx or SCNu
Conversion(t, hex) == IF t.signed THEN "i" ELSE IF hex THEN "x" ELSE "u"

\* lines 434-509, without <charconv>; after holds the bytes that follow the
\* view in memory
from_string_fallback(string, after, t, number, hex) ==
    LET r == sscanf(string \o after, Len(string), Conversion(t, hex), t, number)
    IN  IF r.n # 1
        THEN [ok |-> FALSE, number |-> r.number]
        ELSE [ok |-> TRUE, number |-> r.number]

from_string(backend, string, after, t, number, hex) ==
    IF backend = "charconv"
    THEN from_string_charconv(string, t, number, hex)
    ELSE from_string_fallback(string, after, t, number, hex)

----------------------------------------------------------------------------
(* to_string, float and double, without <charconv>                          *)

\* the digits after the point of r/4, 0 <= r < 4, to the given precision
RECURSIVE FractionDigits(_, _)
FractionDigits(r, precision) ==
    IF precision = 0 THEN <<>>
    ELSE <<DigitChars[((r * 10) \div 4) + 1]>>
             \o FractionDigits((r * 10) % 4, precision - 1)

Abs(x) == IF x < 0 THEN -x ELSE x

\* the text of "%.<precision>f" for the number quarters/4, which is exact in
\* float and in double
FixedText(quarters, precision) ==
    (IF quarters < 0 THEN <<"-">> ELSE <<>>)
        \o Digits(Abs(quarters) \div 4, 10)
        \o (IF precision = 0 THEN <<>>
            ELSE <<".">> \o FractionDigits(Abs(quarters) % 4, precision))

\* lines 391 and 402: the digits after the point for float and for double
Precision(type) == IF type = "float" THEN 6 ELSE 8

\* lines 387 and 398: std::trunc(number) == number ? "%.0f" : "%.6f" / "%.8f"
FloatText(quarters, type) ==
    IF quarters % 4 = 0
    THEN FixedText(quarters, 0)
    ELSE FixedText(quarters, Precision(type))

\* lines 395 and 406: the argument "0\0", taken as a const char*
FloatTrimBy == CStr(<<"0", NUL, NUL>>)

\* lines 386-407
to_string_float(quarters, type, mem, cap) ==
    LET r == snprintf(mem, cap, FloatText(quarters, type))
    IN  IF r.length <= 0
        THEN [view |-> <<>>, mem |-> r.mem]
        ELSE [view |-> trimm(SubView(BufferView(r.mem, cap), 0, r.length), FloatTrimBy),
              mem |-> r.mem]

----------------------------------------------------------------------------
(* The callers of split and substr                                          *)

\* to_string and from_string are not called
NumIdle == numOp = "idle" /\ numIn = <<>> /\ numOut = <<>>

\* parseCSV is not called
CsvIdle == csvIn = <<>> /\ events = <<>> /\ csvDone = FALSE

\* split and substr are not called
SplitIdle ==
    /\ str = <<>> /\ by = <<>> /\ withEmpty = FALSE /\ escape = "\\"
    /\ hasHandler = FALSE /\ offset0 = 0 /\ offset = 0 /\ parts = <<>>
    /\ ret = <<>> /\ handled = <<>> /\ splitDone = FALSE

Chars == {"a", ",", ";", "\\"}

\* the inputs of the examples: a\,b,c  and  a,,b
EscapeExample == <<"a", "\\", ",", "b", ",", "c">>
EmptyExample == <<"a", ",", ",", "b">>

Strs == SeqsUpTo(Chars, MaxLen) \cup {EscapeExample, EmptyExample}

Delims == {<<>>, <<",">>, <<",", ";">>}

Escapes == {"\\", ";"}

\* calls of substr a caller makes before giving up on a cursor that does not move
MaxCalls == MaxLen + 3

InitSplit ==
    /\ str \in Strs
    /\ by \in Delims
    /\ withEmpty \in BOOLEAN
    /\ escape \in Escapes
    /\ hasHandler \in BOOLEAN
    /\ offset0 \in 0..Len(str)
    /\ offset = offset0
    /\ parts = <<>>
    /\ ret = <<>>
    /\ handled = <<>>
    /\ splitDone = FALSE
    /\ CsvIdle
    /\ NumIdle

inputs == <<str, by, withEmpty, escape, hasHandler, offset0>>

\* split(str, by, handler, withEmpty, escape)
Split ==
    /\ ~splitDone
    /\ handled' = split(str, by, hasHandler, withEmpty, escape)
    /\ splitDone' = TRUE
    /\ UNCHANGED <<inputs, offset, parts, ret, csvVars, numVars>>

\* one pass of:  while (offset < str.size()) parts.push_back(substr(str, offset, ...))
NextToken ==
    /\ offset < Len(str)
    /\ Len(parts) < MaxCalls
    /\ LET r == substr(str, offset, by, withEmpty, escape)
       IN  /\ offset' = r.offset
           /\ ret' = r.part
           /\ parts' = Append(parts, r.part)
    /\ UNCHANGED <<inputs, handled, splitDone, csvVars, numVars>>

\* a call of substr with a cursor that is already at or past the end
Exhausted ==
    /\ offset >= Len(str)
    /\ LET r == substr(str, offset, by, withEmpty, escape)
       IN  /\ offset' = r.offset
           /\ ret' = r.part
    /\ UNCHANGED <<inputs, parts, handled, splitDone, csvVars, numVars>>

NextSplit == Split \/ NextToken \/ Exhausted

SpecSplit == InitSplit /\ [][NextSplit]_vars

Tokens(calls) == [k \in 1..Len(calls) |-> calls[k].part]

----------------------------------------------------------------------------
(* What the parts of a string are, said by positions instead of by a scan   *)

\* the character at position i comes right after an escape that is itself not escaped
RECURSIVE IsEscaped(_, _, _)
IsEscaped(s, esc, i) ==
    /\ i > 0
    /\ At(s, i - 1) = esc
    /\ ~IsEscaped(s, esc, i - 1)

\* the positions of the delimiters that end a part
Boundaries(s, set, esc) ==
    {i \in 0..(Len(s) - 1) :
        /\ ~IsEscaped(s, esc, i)
        /\ At(s, i) # esc
        /\ \E k \in 1..Len(set) : set[k] = At(s, i)}

\* the positions of the escape characters that protect the character after them
ActiveEscapes(s, esc) ==
    {i \in 0..(Len(s) - 1) : At(s, i) = esc /\ ~IsEscaped(s, esc, i)}

\* the characters of s at the positions lo..hi that are not in drop
RECURSIVE Slice(_, _, _, _)
Slice(s, lo, hi, drop) ==
    IF lo > hi THEN <<>>
    ELSE IF lo \in drop THEN Slice(s, lo + 1, hi, drop)
    ELSE <<At(s, lo)>> \o Slice(s, lo + 1, hi, drop)

\* the k-th boundary, k = 1, 2, ...
NthBoundary(B, k) == CHOOSE b \in B : Cardinality({x \in B : x < b}) = k - 1

\* the position after the boundary before b (0 when b is the first)
PieceStart(B, b) ==
    IF \E x \in B : x < b
    THEN (CHOOSE x \in B : x < b /\ \A y \in B : y < b => y <= x) + 1
    ELSE 0

\* the parts of s: the pieces that end at a delimiter, kept when withEmpty or
\* not empty, then the rest of s when it is not empty; without the characters
\* at the positions in drop
ExpectedParts(s, set, we, esc, drop) ==
    LET B == Boundaries(s, set, esc)
        n == Cardinality(B)
        raw == [k \in 1..n |->
                   Slice(s, PieceStart(B, NthBoundary(B, k)), NthBoundary(B, k) - 1, {})]
        out == [k \in 1..n |->
                   Slice(s, PieceStart(B, NthBoundary(B, k)), NthBoundary(B, k) - 1, drop)]
        kept == {k \in 1..n : we \/ raw[k] # <<>>}
        nth(j) == CHOOSE k \in kept : Cardinality({x \in kept : x < k}) = j - 1
        restFrom == IF B = {} THEN 0
                    ELSE (CHOOSE x \in B : \A y \in B : y <= x) + 1
        rest == IF restFrom >= Len(s) THEN <<>>
                ELSE <<Slice(s, restFrom, Len(s) - 1, drop)>>
    IN  [j \in 1..Cardinality(kept) |-> out[nth(j)]] \o rest

\* split ran with a handler and a delimiter set, so it scanned str
SplitRan == splitDone /\ hasHandler /\ by # <<>>

----------------------------------------------------------------------------
(* C1 *)

\* C1: when the cursor that started at 0 is exhausted (offset >= str.size()),
\* the values substr returned are, in order and in number, the tokens split
\* passed to the handler.
C1_SplitCursorEquivalence ==
    (SplitRan /\ offset0 = 0 /\ offset >= Len(str)) => parts = Tokens(handled)

\* what does hold of the code: the values substr returned are the tokens of
\* split, followed, when withEmpty is not set and str ends with delimiters
\* that close only zero-length pieces, by one zero-length value
CursorPartsUpToLastEmpty ==
    (SplitRan /\ offset0 = 0 /\ offset >= Len(str)) =>
        \/ parts = Tokens(handled)
        \/ ~withEmpty /\ parts = Append(Tokens(handled), <<>>)

----------------------------------------------------------------------------
(* C2 *)

\* C2, as stated: a call of substr leaves offset in [0, str.size()] and not
\* smaller than before.
C2_CursorInRange ==
    [][offset' >= offset /\ 0 <= offset' /\ offset' <= Len(str)]_vars

\* C2, amended: a call of substr leaves offset in [0, str.size() + 1] and not
\* smaller than before; str.size() + 1 is what it leaves when the scan reaches
\* the end of str.
C2_CursorInRangeOrSentinel ==
    [][offset' >= offset /\ 0 <= offset' /\ offset' <= Len(str) + 1]_vars

\* a call has scanned to the end of a non-empty string and left the sentinel
C2_Witness == offset = Len(str) + 1 /\ parts # <<>> /\ offset0 < Len(str)

----------------------------------------------------------------------------
(* C3 *)

\* C3, as stated: a delimiter right after an unescaped escape character does
\* not end a token, and the escape character is not part of the token emitted;
\* a\,b,c split by "," gives "a,b" and "c".
C3_EscapeConsumed ==
    SplitRan =>
        /\ Tokens(handled) =
               ExpectedParts(str, by, withEmpty, escape, ActiveEscapes(str, escape))
        /\ (str = EscapeExample /\ by = <<",">> /\ escape = "\\")
               => Tokens(handled) = << <<"a", ",", "b">>, <<"c">> >>

\* C3, amended: a delimiter right after an unescaped escape character does not
\* end a token, and the token emitted is the slice of the input as it stands,
\* escape characters included; a\,b,c split by "," gives a\,b (4 characters)
\* and c.
C3_EscapeKept ==
    SplitRan =>
        /\ Tokens(handled) = ExpectedParts(str, by, withEmpty, escape, {})
        /\ (str = EscapeExample /\ by = <<",">> /\ escape = "\\")
               => Tokens(handled) = << <<"a", "\\", ",", "b">>, <<"c">> >>

\* split has emitted a token that holds an escaped delimiter
C3_Witness ==
    /\ SplitRan
    /\ str = EscapeExample /\ by = <<",">> /\ escape = "\\"
    /\ Len(handled) = 2

----------------------------------------------------------------------------
(* C4 *)

EmptyCount(calls) == Cardinality({k \in 1..Len(calls) : calls[k].part = <<>>})

\* the delimiters that end a zero-length piece
EmptyPieces(s, set, esc) ==
    LET B == Boundaries(s, set, esc)
    IN  {b \in B : b = 0 \/ (b - 1) \in B}

\* C4: without withEmpty the handler never gets a zero-length token; with it,
\* every zero-length piece that ends at a delimiter is emitted; the idx values
\* are 0, 1, 2, ... in call order; a,,b by "," gives a, b (0, 1) without
\* withEmpty and a, "", b (0, 1, 2) with it.
C4_EmptyTokensAndIndices ==
    SplitRan =>
        /\ ~withEmpty => EmptyCount(handled) = 0
        /\ withEmpty =>
               EmptyCount(handled) = Cardinality(EmptyPieces(str, by, escape))
        /\ \A k \in 1..Len(handled) : handled[k].idx = k - 1
        /\ (str = EmptyExample /\ by = <<",">> /\ ~withEmpty) =>
               handled = << [part |-> <<"a">>, idx |-> 0],
                            [part |-> <<"b">>, idx |-> 1] >>
        /\ (str = EmptyExample /\ by = <<",">> /\ withEmpty) =>
               handled = << [part |-> <<"a">>, idx |-> 0],
                            [part |-> <<>>, idx |-> 1],
                            [part |-> <<"b">>, idx |-> 2] >>

\* split has dropped a zero-length piece and emitted a later token
C4_Witness ==
    /\ SplitRan
    /\ ~withEmpty
    /\ EmptyPieces(str, by, escape) # {}
    /\ Len(handled) >= 2

----------------------------------------------------------------------------
(* The callers of parseCSV                                                  *)

CsvChars == {"a", ",", Quote, "\n", "\r", NUL}

ContentChars == {"a", ",", Quote, "\n", "\r"}

\* a,b<CR><LF>c,d<CR><LF>
CrLfExample == <<"a", ",", "b", "\r", "\n", "c", ",", "d", "\r", "\n">>

\* the content of the quoted field of  a,b,"c,d"<LF>
CommaContent == <<"c", ",", "d">>

\* the content of the quoted field of  "he said ""hi"""<LF> :  he said "hi"
HeSaidContent == <<"h", "e", " ", "s", "a", "i", "d", " ", Quote, "h", "i", Quote>>

\* the text written for a quoted field: the content with every quote doubled,
\* between two quotes
RECURSIVE DoubleQuotes(_)
DoubleQuotes(w) ==
    IF w = <<>> THEN <<>>
    ELSE (IF Head(w) = Quote THEN <<Quote, Quote>> ELSE <<Head(w)>>)
             \o DoubleQuotes(Tail(w))

Quoted(w) == <<Quote>> \o DoubleQuotes(w) \o <<Quote>>

\* what comes before the quoted field: the text, the cells it gives, the idx
\* of the field after it and the record ends it gives
Prefixes ==
    { [text |-> <<>>, cells |-> <<>>, next |-> 0, endls |-> 0],
      [text |-> <<"a", ",">>, cells |-> << <<"a">> >>, next |-> 1, endls |-> 0],
      [text |-> <<"a", "\n">>, cells |-> << <<"a">> >>, next |-> 0, endls |-> 1],
      [text |-> <<"a", ",", "b", ",">>, cells |-> << <<"a">>, <<"b">> >>,
       next |-> 2, endls |-> 0] }

\* what comes after the quoted field: the text, the cells it gives and whether
\* it starts with the comma that ends the field
Suffixes ==
    { [text |-> <<>>, cells |-> <<>>, comma |-> FALSE],
      [text |-> <<"\n">>, cells |-> <<>>, comma |-> FALSE],
      [text |-> <<"\r", "\n">>, cells |-> <<>>, comma |-> FALSE],
      [text |-> <<",", "a", "\n">>, cells |-> << <<"a">> >>, comma |-> TRUE] }

RawInputs ==
    { [csv |-> t, quoted |-> FALSE, pre |-> <<>>, content |-> <<>>, post |-> <<>>] :
        t \in SeqsUpTo(CsvChars, MaxCsvLen) \cup {CrLfExample} }

QuotedInputs ==
    { [csv |-> pre.text \o Quoted(w) \o post.text, quoted |-> TRUE,
       pre |-> pre, content |-> w, post |-> post] :
        pre \in Prefixes, post \in Suffixes,
        w \in SeqsUpTo(ContentChars, MaxContent) \cup {CommaContent, HeSaidContent} }

InitCSV ==
    /\ \E in \in RawInputs \cup QuotedInputs, onCell \in BOOLEAN, onEndl \in BOOLEAN :
           csvIn = in @@ [onCell |-> onCell, onEndl |-> onEndl]
    /\ events = <<>>
    /\ csvDone = FALSE
    /\ SplitIdle
    /\ NumIdle

\* parseCSV(csv, onCell, onEndl)
ParseCSV ==
    /\ ~csvDone
    /\ events' = parseCSV(csvIn.csv, csvIn.onCell, csvIn.onEndl)
    /\ csvDone' = TRUE
    /\ UNCHANGED <<csvIn, splitVars, numVars>>

NextCSV == ParseCSV

SpecCSV == InitCSV /\ [][NextCSV]_vars

\* the cells passed to onCell, in order, as [cell, idx]
Cells(ev) ==
    LET ks == {k \in 1..Len(ev) : ev[k].kind = "cell"}
        nth(j) == CHOOSE k \in ks : Cardinality({x \in ks : x < k}) = j - 1
    IN  [j \in 1..Cardinality(ks) |-> [cell |-> ev[nth(j)].cell, idx |-> ev[nth(j)].idx]]

\* the positions at which onEndl was called
EndlAt(ev) == {ev[k].at : k \in {k \in 1..Len(ev) : ev[k].kind = "endl"}}

EndlCount(ev) == Cardinality({k \in 1..Len(ev) : ev[k].kind = "endl"})

Kinds(ev) == [k \in 1..Len(ev) |-> ev[k].kind]

\* parseCSV ran with an onCell, so it scanned the text
CsvRan == csvDone /\ csvIn.onCell

----------------------------------------------------------------------------
(* C5 *)

\* the cells of a text made of a prefix, a quoted field and a suffix, when
\* the quoted field gives one cell with its content
CellsWithField(in) ==
    LET k == in.pre.next
    IN  [j \in 1..Len(in.pre.cells) |-> [cell |-> in.pre.cells[j], idx |-> j - 1]]
        \o << [cell |-> in.content, idx |-> k] >>
        \o [j \in 1..Len(in.post.cells) |-> [cell |-> in.post.cells[j], idx |-> k + j]]

\* the record ends of such a text: those of the prefix and the one that
\* closes the record the field is in
EndlsWithField(in) == IF in.onEndl THEN in.pre.endls + 1 ELSE 0

\* C5, as stated: a field written as a double-quoted string gives one cell,
\* the text between the outer quotes with every doubled quote made one; the
\* commas, CRs and LFs inside it end no cell and no record.
C5_QuotedField ==
    (CsvRan /\ csvIn.quoted) =>
        /\ Cells(events) = CellsWithField(csvIn)
        /\ EndlCount(events) = EndlsWithField(csvIn)

\* C5, amended: the same, for a quoted field whose content is not empty or
\* which is followed by a comma (an empty cell at the end of a record is not
\* emitted, quoted or not).
C5_QuotedFieldNotEmptyLast ==
    (CsvRan /\ csvIn.quoted /\ (csvIn.content # <<>> \/ csvIn.post.comma)) =>
        /\ Cells(events) = CellsWithField(csvIn)
        /\ EndlCount(events) = EndlsWithField(csvIn)

\* parseCSV has emitted the cell  he said "hi"  of a quoted field
C5_Witness ==
    /\ CsvRan /\ csvIn.quoted
    /\ csvIn.content = HeSaidContent
    /\ \E k \in 1..Len(events) : events[k].cell = HeSaidContent

----------------------------------------------------------------------------
(* C6 *)

QuotesBefore(csv, i) == Cardinality({j \in 0..(i - 1) : At(csv, j) = Quote})

\* the character at position i is NUL, CR or LF outside a quoted field
UnquotedTerminator(csv, i) ==
    /\ At(csv, i) \in {NUL, "\n", "\r"}
    /\ QuotesBefore(csv, i) % 2 = 0

\* the first position of every maximal run of unquoted terminators
RunStarts(csv) ==
    {i \in 0..(Len(csv) - 1) :
        /\ UnquotedTerminator(csv, i)
        /\ i = 0 \/ ~UnquotedTerminator(csv, i - 1)}

\* the last character processed was an unquoted terminator
EndsOnTerminator(csv) == Len(csv) > 0 /\ UnquotedTerminator(csv, Len(csv) - 1)

\* C6: with an onEndl, it is called once per maximal run of NUL, CR, LF
\* outside a quoted field (at the first character of the run), and once more
\* after the scan exactly when the last character was not such a terminator;
\* a,b<CR><LF>c,d<CR><LF> gives cell, cell, end, cell, cell, end.
C6_RecordEnds ==
    (CsvRan /\ csvIn.onEndl) =>
        /\ EndlAt(events) =
               RunStarts(csvIn.csv)
                   \cup (IF EndsOnTerminator(csvIn.csv) THEN {} ELSE {Len(csvIn.csv)})
        /\ EndlCount(events) = Cardinality(EndlAt(events))
        /\ csvIn.csv = CrLfExample =>
               Kinds(events) = <<"cell", "cell", "endl", "cell", "cell", "endl">>

\* parseCSV has taken CR LF as one record end, twice
C6_Witness ==
    /\ CsvRan /\ csvIn.onEndl
    /\ csvIn.csv = CrLfExample
    /\ EndlCount(events) = 2

----------------------------------------------------------------------------
(* The callers of to_string and from_string                                 *)

Backends == {"charconv", "fallback"}

\* the values a number of the type is drawn from: all of an 8-bit type, the
\* ends and some values between of the others (not the least int32_t, whose
\* magnitude is no 32-bit value)
Values(t) ==
    CASE t.bits = 8 -> TMin(t)..TMax(t)
      [] t = I16 -> {-32768, -32767, -256, -255, -1, 0, 1, 9, 10, 255, 256,
                     4096, 32766, 32767}
      [] t = U16 -> {0, 1, 9, 10, 255, 256, 4096, 65534, 65535}
      [] t = I32 -> {-2147483647, -123456789, -65536, -1, 0, 1, 65536,
                     123456789, 2147483647}

TextChars == {"0", "1", "9", "f", "-", "x"}

TrailingGarbage == <<"1", "2", "3", "x">>

TextExamples ==
    { TrailingGarbage, <<"1", "2", "3">>, <<" ", "1">>, <<"+", "1">>,
      <<"0", "x", "1", "f">>, <<"1", "F">>, <<"0", "1", "7">>,
      <<"1", "2", "7">>, <<"1", "2", "8">>, <<"-", "1", "2", "8">>,
      <<"-", "1", "2", "9">>, <<"2", "5", "5">>, <<"2", "5", "6">>,
      <<"3", "2", "7", "6", "8">>, <<"-", "3", "2", "7", "6", "8">>,
      <<"6", "5", "5", "3", "5">>, <<"6", "5", "5", "3", "6">> }

Texts == SeqsUpTo(TextChars, MaxTextLen) \cup TextExamples

\* the C standard and the C libraries agree on what sscanf takes from the text:
\* no 0x without a hexadecimal digit after it
ScanfDefined(text) ==
    \A k \in 1..(Len(text) - 1) :
        (text[k] = "0" /\ text[k + 1] \in {"x", "X"})
            => (k + 2 <= Len(text) /\ IsDigit(text[k + 2], 16))

\* the overloads without <charconv> take hex for the unsigned types only
HasOverload(backend, t, hex) == backend = "fallback" => (hex => ~t.signed)

\* the value of number before from_string is called
NumberBefore == 77

InitNum ==
    /\ NumIdle
    /\ SplitIdle
    /\ CsvIdle

\* to_string(number, buffer, hex) for an integer
ToStringInt ==
    /\ numOp = "idle"
    /\ \E backend \in Backends, t \in IntTypes, cap \in 0..MaxCap, hex \in BOOLEAN :
         \E number \in Values(t) :
           /\ HasOverload(backend, t, hex)
           /\ \E r \in to_string(backend, number, Memory(cap), cap, hex) :
                /\ numIn' = [backend |-> backend, type |-> t, number |-> number,
                             cap |-> cap, hex |-> hex]
                /\ numOut' = r
    /\ numOp' = "to_string"
    /\ UNCHANGED <<splitVars, csvVars>>

\* from_string(string, number, hex) for an integer, the text followed by a
\* NUL in memory.  Without <charconv>: an int32_t, which every text of the
\* model fits
FromStringInt ==
    /\ numOp = "idle"
    /\ \E backend \in Backends, t \in IntTypes, text \in Texts, hex \in BOOLEAN :
           /\ HasOverload(backend, t, hex)
           /\ backend = "fallback" => (t = I32 /\ ScanfDefined(text))
           /\ numIn' = [backend |-> backend, type |-> t, text |-> text, hex |-> hex]
           /\ numOut' = from_string(backend, text, <<NUL>>, t, NumberBefore, hex)
    /\ numOp' = "from_string"
    /\ UNCHANGED <<splitVars, csvVars>>

\* from_string(to_string(number, buffer, hex), out, hex).  Without <charconv>
\* the buffer is not empty: sscanf would read past an empty one
RoundTrip ==
    /\ numOp = "idle"
    /\ \E backend \in Backends, t \in IntTypes, cap \in 0..MaxCap, hex \in BOOLEAN :
         \E number \in Values(t) :
           /\ HasOverload(backend, t, hex)
           /\ backend = "fallback" => cap >= 1
           /\ \E r \in to_string(backend, number, Memory(cap), cap, hex) :
                LET after == SubSeq(r.mem, Len(r.view) + 1, cap)
                    back == from_string(backend, r.view, after, t, NumberBefore, hex)
                IN  /\ numIn' = [backend |-> backend, type |-> t, number |-> number,
                                 cap |-> cap, hex |-> hex]
                    /\ numOut' = [view |-> r.view, ok |-> back.ok, number |-> back.number]
    /\ numOp' = "round_trip"
    /\ UNCHANGED <<splitVars, csvVars>>

\* to_string(number, buffer) for the float or double quarters/4, without
\* <charconv> for floating point
ToStringFloat ==
    /\ numOp = "idle"
    /\ \E type \in {"float", "double"}, cap \in 0..MaxCap,
          quarters \in (-MaxQuarters)..MaxQuarters :
           /\ numIn' = [type |-> type, quarters |-> quarters, cap |-> cap]
           /\ numOut' = to_string_float(quarters, type, Memory(cap), cap)
    /\ numOp' = "to_string_float"
    /\ UNCHANGED <<splitVars, csvVars>>

NextNum == ToStringInt \/ FromStringInt \/ RoundTrip \/ ToStringFloat

SpecNum == InitNum /\ [][NextNum]_vars

----------------------------------------------------------------------------
(* C7 *)

\* the whole text is a number of the base that fits the type: an optional
\* sign and one digit or more
ValidNumber(text, t, hex) ==
    LET signed == text # <<>> /\ Head(text) \in {"-", "+"}
        neg == text # <<>> /\ Head(text) = "-"
        digs == IF signed THEN Tail(text) ELSE text
    IN  /\ digs # <<>>
        /\ DigitRun(digs, Base(hex)) = Len(digs)
        /\ Fits(t, neg, Magnitude(digs, Base(hex), 0))

StrictParse ==
    /\ numOut.ok => ValidNumber(numIn.text, numIn.type, numIn.hex)
    /\ numIn.text = <<>> => ~numOut.ok
    /\ numIn.text = TrailingGarbage => ~numOut.ok

\* C7: from_string returns true only if the whole text is a valid number of
\* the base that fits the type; false for the empty text, for 123x and for
\* any text longer than its numeric prefix.
C7_StrictParse == numOp = "from_string" => StrictParse

\* what does hold of the code: with <charconv>, from_string returns true
\* exactly for a minus sign (signed types) and digits that fit the type
CharconvStrictParse ==
    (numOp = "from_string" /\ numIn.backend = "charconv") =>
        /\ StrictParse
        /\ numOut.ok <=> (/\ ValidNumber(numIn.text, numIn.type, numIn.hex)
                          /\ Head(numIn.text) # "+")

----------------------------------------------------------------------------
(* C8 *)

CapacityReport ==
    LET text == Repr(numIn.number, Base(numIn.hex))
    IN  /\ numOut.view = <<>> <=> Len(text) > numIn.cap
        /\ numOut.view # <<>> => numOut.view = text
        /\ numOut.mem[numIn.cap + 1] = Guard
        /\ (numIn.number = 123456789 /\ numIn.cap = 2 /\ ~numIn.hex)
               => numOut.view = <<>>

\* C8: to_string of an integer returns an empty view exactly when the text is
\* longer than buffer.size(), else the whole text; no byte is written at or
\* after buffer.data() + buffer.size(); 123456789 into a buffer of 2 gives an
\* empty view.
C8_CapacityReport == numOp = "to_string" => CapacityReport

\* what does hold of the code: C8 with <charconv>
CharconvCapacityReport ==
    (numOp = "to_string" /\ numIn.backend = "charconv") => CapacityReport

\* what does hold of the code: without <charconv> the view is never empty for
\* a buffer that is not, and is the text cut to buffer.size() - 1 characters
\* and a NUL when the text is not shorter than the buffer
FallbackTruncates ==
    (numOp = "to_string" /\ numIn.backend = "fallback") =>
        LET text == Repr(numIn.number, Base(numIn.hex))
        IN  /\ numOut.mem[numIn.cap + 1] = Guard
            /\ Len(text) < numIn.cap => numOut.view = text
            /\ Len(text) >= numIn.cap =>
                   numOut.view = IF numIn.cap = 0 THEN <<>>
                                 ELSE Append(SubSeq(text, 1, numIn.cap - 1), NUL)

----------------------------------------------------------------------------
(* C9 *)

RoundTripOK == numOut.ok /\ numOut.number = numIn.number

\* C9: for a buffer large enough to hold the text of n,
\* from_string(to_string(n, buffer, hex), out, hex) is true and out = n.
C9_RoundTrip ==
    (/\ numOp = "round_trip"
     /\ numIn.cap >= Len(Repr(numIn.number, Base(numIn.hex)))) => RoundTripOK

\* what does hold of the code: C9 with <charconv>, and without it when the
\* buffer also holds the NUL that snprintf writes after the text
RoundTripWithRoom ==
    (/\ numOp = "round_trip"
     /\ numIn.cap >= Len(Repr(numIn.number, Base(numIn.hex)))
                         + (IF numIn.backend = "fallback" THEN 1 ELSE 0))
        => RoundTripOK

----------------------------------------------------------------------------
(* C10 *)

\* C10: with room in the buffer, the view to_string returns for a float or a
\* double is the text of snprintf without its trailing '0' characters, every
\* leading character kept; 10 gives "10", 0.5 gives "0.5", zero gives "0".
C10_TrailingZerosOnly ==
    LET text == FloatText(numIn.quarters, numIn.type)
        view == numOut.view
    IN  (numOp = "to_string_float" /\ numIn.cap > Len(text)) =>
            /\ Len(view) <= Len(text)
            /\ view = SubSeq(text, 1, Len(view))
            /\ \A k \in (Len(view) + 1)..Len(text) : text[k] = "0"
            /\ numIn.quarters = 40 => view = <<"1", "0">>
            /\ numIn.quarters = 2 => view = <<"0", ".", "5">>
            /\ numIn.quarters = 0 => view = <<"0">>

\* what does hold of the code: the view is the text of snprintf without its
\* leading and its trailing '0' characters
FloatZerosBothEnds ==
    LET text == FloatText(numIn.quarters, numIn.type)
    IN  (numOp = "to_string_float" /\ numIn.cap > Len(text)) =>
            /\ numOut.view = trimm(text, <<"0">>)
            /\ numIn.quarters = 40 => numOut.view = <<"1">>
            /\ numIn.quarters = 2 => numOut.view = <<".", "5">>
            /\ numIn.quarters = 0 => numOut.view = <<>>

====
